---- MODULE Spec2Model ----
(***************************************************************************)
(* Workflow-graph orchestration of TRT_AI_BOTS.                            *)
(*                                                                         *)
(* Two graphs are built on langgraph's StateGraph:                         *)
(*   - the event-scheduler graph (app/graph/event_scheduler_graph.py),     *)
(*     compiled with a MemorySaver checkpointer and driven by the          *)
(*     /interact/ route (app/src/api/mail_routes.py);                      *)
(*   - the wine graph (agent/wine_agents.py, build_agent_graph), compiled  *)
(*     without a checkpointer and driven by AgenticRAGService.query.       *)
(*                                                                         *)
(* The executor itself is the library the sources import; what the model   *)
(* takes from it is what the calls in the sources select: one node per     *)
(* superstep along the declared edges, channel writes applied after the    *)
(* node and its branch have run, a checkpoint saved after every superstep, *)
(* a run that is given an input starts at the entry node, a schema without *)
(* annotations (dict) is a single root channel that each update replaces.  *)
(***************************************************************************)
EXTENDS Integers, Sequences, FiniteSets, TLC

VARIABLES memory, run, calls, wstate, wrun, wcalls, vstore, sessmgr, chat

evars == <<memory, run, calls>>
wvars == <<wstate, wrun, wcalls>>
svars == <<vstore, sessmgr, chat>>
vars == <<memory, run, calls, wstate, wrun, wcalls, vstore, sessmgr, chat>>

(* ---------------- bounds of the exploration ---------------- *)
MaxCalls == 2
StepBudget == 4
NumConvs == 2
MaxWineCalls == 2
MaxMatches == 3

Convs == 1..NumConvs

(* ---------------- event-scheduler graph: definition ---------------- *)
END == "__end__"
INVALID == "__invalid__"
NoValue == "__unset__"

members ==
  {"greeting_chain", "prechat_agent", "comparison", "colortrend",
   "scheduler_agent", "fallback_agent", "feedback_agent"}

Nodes == members \cup {"greet_agent", "supervisor"}

EntryNode == "supervisor"

StaticEdgesChained ==
  {<<m, END>> : m \in members \ {"greeting_chain", "comparison"}}
    \cup {<<"greet_agent", END>>, <<"greet_agent", "greeting_chain">>,
          <<"comparison", "colortrend">>}

StaticEdges ==
  {<<m, END>> : m \in members \ {"greeting_chain"}}
    \cup {<<"greet_agent", END>>, <<"greet_agent", "greeting_chain">>}

conditional_map == [k \in members |-> k]

greeting_map ==
  [k \in {"prechat_agent", "greet_agent", "FINISH"} |->
     IF k = "FINISH" THEN END ELSE k]

Routers == {"greeting_chain", "supervisor"}

PathMap(n) == IF n = "supervisor" THEN conditional_map ELSE greeting_map

(* Values the function-calling LLM can put in "next": the parser does not  *)
(* check them against the enum of the function definition.                 *)
RouteValues == members \cup {"greet_agent", "FINISH"}

(* ---------------- state and merge ---------------- *)
ThreadId(c) == "1"

HumanMsg(c) == [name |-> "human", conv |-> c]
NodeMsg(n) == [name |-> n, conv |-> 0]

Inputs(c) == {<< >>, <<HumanMsg(c)>>}

SchemaKeys == {"messages", "next"}

EmptyState == [messages |-> << >>, next |-> NoValue]

MergeOverwrite(current, update) ==
  [messages |-> IF "messages" \in DOMAIN update
                  THEN update.messages
                  ELSE current.messages,
   next |-> IF "next" \in DOMAIN update THEN update.next ELSE current.next]

Merge(current, update) ==
  [messages |-> IF "messages" \in DOMAIN update
                  THEN current.messages \o update.messages
                  ELSE current.messages,
   next |-> IF "next" \in DOMAIN update THEN update.next ELSE current.next]

(* ---------------- nodes ---------------- *)
agent_node(n) == [messages |-> <<NodeMsg(n)>>]

RouterChain ==
  {[next |-> v] : v \in RouteValues}
    \cup {[next |-> v, reason |-> "text"] : v \in {"FINISH", "prechat_agent"}}

NodeUpdates(n) == IF n \in Routers THEN RouterChain ELSE {agent_node(n)}

(* ---------------- edge resolution ---------------- *)
StaticTargetsNone(n) == {}

StaticTargets(n) == {e[2] : e \in {d \in StaticEdges : d[1] = n}} \ {END}

ResolveDefaultEnd(n, st) ==
  IF n \in Routers
    THEN IF st.next \in DOMAIN PathMap(n) THEN PathMap(n)[st.next] ELSE END
    ELSE IF StaticTargets(n) = {} THEN END ELSE CHOOSE t \in StaticTargets(n) : TRUE

Resolve(n, st) ==
  IF n \in Routers
    THEN IF st.next \in DOMAIN PathMap(n) THEN PathMap(n)[st.next] ELSE INVALID
    ELSE IF StaticTargets(n) = {} THEN END ELSE CHOOSE t \in StaticTargets(n) : TRUE

(* ---------------- /interact/ ---------------- *)
NoChunk == [node |-> "none", update |-> [none |-> TRUE]]

LoadedFresh(tid) == EmptyState

Loaded(tid) == IF tid \in DOMAIN memory THEN memory[tid].state ELSE EmptyState

IsRetry(c, msgs) ==
  /\ run.status = "failed"
  /\ run.error = "NodeExecutionError"
  /\ run.conv = c
  /\ run.input = msgs

Interact(c, msgs) ==
  /\ run.status # "running"
  /\ calls < MaxCalls
  /\ LET tid == ThreadId(c)
         st == Merge(Loaded(tid), [messages |-> msgs])
     IN /\ memory' = [t \in DOMAIN memory \cup {tid} |->
                        IF t = tid THEN [state |-> st, pending |-> EntryNode]
                                   ELSE memory[t]]
        /\ run' = [status |-> "running", conv |-> c, input |-> msgs,
                   node |-> EntryNode, steps |-> 0, path |-> << >>,
                   chunk |-> NoChunk, error |-> "none",
                   responses |-> << >>, result |-> "none",
                   cancel |-> "none",
                   rerun |-> (run.status = "terminated" /\ msgs = << >>),
                   resumed |-> IsRetry(c, msgs),
                   base |-> IF IsRetry(c, msgs) THEN run.base ELSE Loaded(tid),
                   prior |-> IF IsRetry(c, msgs) THEN run.prior \o run.path
                                                 ELSE << >>]
  /\ calls' = calls + 1
  /\ UNCHANGED <<wvars, svars>>

NodeRaises ==
  /\ run.status = "running"
  /\ run' = [run EXCEPT !.status = "failed", !.error = "NodeExecutionError",
                         !.result = "exception"]
  /\ UNCHANGED <<memory, calls>>
  /\ UNCHANGED <<wvars, svars>>

(* The loop body of interact: a supervisor chunk is skipped, the content   *)
(* of the last message of any other chunk is appended to responses.        *)
Collect(responses, n, u) ==
  IF n # "supervisor" /\ "messages" \in DOMAIN u /\ u.messages # << >>
    THEN Append(responses, u.messages[Len(u.messages)].name)
    ELSE responses

(* The caller abandons the call (client disconnect) while a node runs.     *)
(* interact is a coroutine that iterates graph.stream without awaiting:    *)
(* nothing in it observes the disconnect, the loop goes on. cancel records *)
(* how far the run has gone since the request: "requested" while the node  *)
(* that was running completes, "due" once it has completed, "ignored" once *)
(* a further node has executed.                                            *)
AfterNode(cancel) ==
  IF cancel = "requested" THEN "due"
  ELSE IF cancel = "due" THEN "ignored" ELSE cancel

Disconnect ==
  /\ run.status = "running"
  /\ run.cancel = "none"
  /\ run' = [run EXCEPT !.cancel = "requested"]
  /\ UNCHANGED <<memory, calls>>
  /\ UNCHANGED <<wvars, svars>>

BudgetNeverReached(steps) == FALSE

BudgetReached(steps) == steps >= StepBudget

Step(u) ==
  /\ run.status = "running"
  /\ LET tid == ThreadId(run.conv)
         n == run.node
         st == Merge(memory[tid].state, u)
         nxt == Resolve(n, st)
     IN IF nxt = INVALID
          THEN /\ run' = [run EXCEPT !.status = "failed",
                                     !.error = "ConfigurationError",
                                     !.result = "exception",
                                     !.chunk = [node |-> n, update |-> u]]
               /\ UNCHANGED memory
          ELSE /\ memory' = [memory EXCEPT ![tid] = [state |-> st, pending |-> nxt]]
               /\ run' = [run EXCEPT
                            !.steps = @ + 1,
                            !.path = Append(@, n),
                            !.chunk = [node |-> n, update |-> u],
                            !.node = nxt,
                            !.status = IF nxt = END THEN "terminated"
                                       ELSE IF BudgetReached(run.steps + 1)
                                              THEN "failed" ELSE "running",
                            !.error = IF nxt # END /\ BudgetReached(run.steps + 1)
                                        THEN "CycleBudgetExceeded" ELSE "none",
                            !.responses = Collect(run.responses, n, u),
                            !.cancel = AfterNode(run.cancel),
                            !.result = IF nxt = END
                                         THEN IF Collect(run.responses, n, u) = << >>
                                                THEN "HTTP400" ELSE "response"
                                       ELSE IF BudgetReached(run.steps + 1)
                                              THEN "exception" ELSE "none"]
  /\ UNCHANGED calls
  /\ UNCHANGED <<wvars, svars>>

NodeCompletes == \E u \in NodeUpdates(run.node) : Step(u)

(* ======================================================================= *)
(* Wine graph (agent/wine_agents.py)                                       *)
(* ======================================================================= *)
None == "None"

WineNodes ==
  {"analyze_query", "vector_search", "vision_analysis", "ocr_analysis",
   "answer_synthesis", "fallback"}

WineEntry == "analyze_query"

WineStaticEdgesRevisit ==
  {<<"analyze_query", "vector_search">>, <<"vision_analysis", "ocr_analysis">>,
   <<"ocr_analysis", "answer_synthesis">>, <<"fallback", "answer_synthesis">>}

WineStaticEdges ==
  {<<"analyze_query", "vector_search">>, <<"vision_analysis", "ocr_analysis">>,
   <<"ocr_analysis", "answer_synthesis">>, <<"fallback", END>>}

WineRouters == {"vector_search", "vision_analysis", "answer_synthesis"}

WinePathMapNoNone(n) ==
  IF n = "vector_search"
    THEN [k \in {"answer_synthesis", "vision_analysis"} |-> k]
  ELSE IF n = "vision_analysis"
    THEN [k \in {"answer_synthesis", "ocr_analysis"} |-> k]
  ELSE [k \in {"fallback"} |-> k]

WinePathMap(n) ==
  IF n = "vector_search"
    THEN [k \in {"answer_synthesis", "vision_analysis"} |-> k]
  ELSE IF n = "vision_analysis"
    THEN [k \in {"answer_synthesis", "ocr_analysis"} |-> k]
  ELSE [k \in {"fallback", None} |-> IF k = None THEN END ELSE k]

(* A match of the vector store: with or without metadata; the metadata     *)
(* carries the document type and the chunk text (abstracted to the type).  *)
MatchKinds ==
  {[meta |-> FALSE, doc_type |-> "none"],
   [meta |-> TRUE, doc_type |-> "pptx"],
   [meta |-> TRUE, doc_type |-> "pdf"]}

MatchLists == UNION {[1..n -> MatchKinds] : n \in 0..MaxMatches}

RECURSIVE SelectText(_, _)
SelectText(ms, pptxOnly) ==
  IF ms = << >> THEN << >>
  ELSE (IF Head(ms).meta /\ (~pptxOnly \/ Head(ms).doc_type = "pptx")
          THEN <<Head(ms).doc_type>> ELSE << >>)
         \o SelectText(Tail(ms), pptxOnly)

Get(state, k, default) == IF k \in DOMAIN state THEN state[k] ELSE default

FallbackMessage == "Sorry, no answer could be generated from the available data."
ApologyMessage == "I apologize, but I'm having trouble generating a response right now. Please try again."
DefaultAnswer == "Sorry, I couldn't process your query."

analyze_query_node(state) ==
  {[query_analysis |-> a, query |-> state.query] : a \in {"parsed", "default"}}

vector_search_node(state) ==
  {[query |-> state.query,
    retrieved_chunks |-> SelectText(ms, FALSE),
    text_sufficient |-> (SelectText(ms, FALSE) # << >>),
    vector_matches |-> ms,
    __next__ |-> IF SelectText(ms, FALSE) # << >>
                   THEN "answer_synthesis" ELSE "vision_analysis"] :
     ms \in MatchLists}

vision_analysis_finds_chunk(state) ==
  {[query |-> state.query,
    vision_chunks |-> <<"pptx">>,
    vision_sufficient |-> TRUE,
    __next__ |-> "answer_synthesis"]}

vision_analysis_node(state) ==
  LET vision_chunks == SelectText(Get(state, "vector_matches", << >>), TRUE)
  IN {[query |-> state.query,
       vision_chunks |-> vision_chunks,
       vision_sufficient |-> (vision_chunks # << >>),
       __next__ |-> IF vision_chunks # << >>
                      THEN "answer_synthesis" ELSE "ocr_analysis"]}

ocr_analysis_node(state) ==
  {[query |-> state.query,
    ocr_chunks |-> SelectText(Get(state, "vector_matches", << >>), TRUE)]}

answer_synthesis_always_answers(state) ==
  {[no_answer |-> FALSE, final_response |-> answer, __next__ |-> None] :
     answer \in {"answer", ApologyMessage}}

answer_synthesis_unanswered(state) ==
  LET no_answer ==
        /\ Get(state, "retrieved_chunks", << >>) = << >>
        /\ Get(state, "vision_chunks", << >>) = << >>
        /\ Get(state, "ocr_chunks", << >>) = << >>
  IN {[no_answer |-> no_answer,
       final_response |-> "answer",
       __next__ |-> IF no_answer THEN "fallback" ELSE None],
      [no_answer |-> no_answer,
       __next__ |-> IF no_answer THEN "fallback" ELSE None]}

answer_synthesis_node(state) ==
  LET no_answer ==
        /\ Get(state, "retrieved_chunks", << >>) = << >>
        /\ Get(state, "vision_chunks", << >>) = << >>
        /\ Get(state, "ocr_chunks", << >>) = << >>
  IN {[no_answer |-> no_answer,
       final_response |-> answer,
       __next__ |-> IF no_answer THEN "fallback" ELSE None] :
        answer \in {"answer", ApologyMessage}}

fallback_passthrough(state) ==
  {[final_response |-> Get(state, "final_response", DefaultAnswer)]}

fallback_node(state) == {[final_response |-> FallbackMessage]}

WineNodeUpdates(n, state) ==
  IF n = "analyze_query" THEN analyze_query_node(state)
  ELSE IF n = "vector_search" THEN vector_search_node(state)
  ELSE IF n = "vision_analysis" THEN vision_analysis_node(state)
  ELSE IF n = "ocr_analysis" THEN ocr_analysis_node(state)
  ELSE IF n = "answer_synthesis" THEN answer_synthesis_node(state)
  ELSE fallback_node(state)

(* StateGraph(dict): the schema has no annotations, the state is one root  *)
(* value and a node's return value becomes the state.                      *)
WineMergeSkipNone(current, update) ==
  [k \in DOMAIN current \cup DOMAIN update |->
     IF k \in DOMAIN update /\ ~(k = "__next__" /\ update[k] = None)
       THEN update[k] ELSE current[k]]

WineMerge(current, update) == update

WineTargetsStaticOnly(n, st) ==
  {e[2] : e \in {d \in WineStaticEdges : d[1] = n}} \ {END}

(* The nodes triggered after n: its static targets and the target its      *)
(* branch maps the router's value to.                                      *)
WineTargets(n, st) ==
  LET static == {e[2] : e \in {d \in WineStaticEdges : d[1] = n}}
      v == Get(st, "__next__", None)
      branch == IF n \notin WineRouters THEN {}
                ELSE IF v \in DOMAIN WinePathMap(n) THEN {WinePathMap(n)[v]}
                ELSE {INVALID}
  IN (static \cup branch) \ {END}

Questions == {"q1", "q2"}

Query(question) ==
  /\ wrun.status # "running"
  /\ wcalls < MaxWineCalls
  /\ wstate' = [query |-> question]
  /\ wrun' = [status |-> "running", question |-> question,
              pending |-> {WineEntry}, steps |-> 0, path |-> << >>,
              chunk |-> NoChunk, error |-> "none", answer |-> "none"]
  /\ wcalls' = wcalls + 1
  /\ UNCHANGED <<evars, svars>>

WineStep(n, u) ==
  /\ wrun.status = "running"
  /\ wrun.pending = {n}
  /\ LET st == WineMerge(wstate, u)
         nxt == WineTargets(n, st)
     IN IF INVALID \in nxt
          THEN /\ wrun' = [wrun EXCEPT !.status = "failed",
                                       !.error = "ConfigurationError",
                                       !.chunk = [node |-> n, update |-> u]]
               /\ UNCHANGED wstate
          ELSE /\ wstate' = st
               /\ wrun' = [wrun EXCEPT
                             !.steps = @ + 1,
                             !.path = Append(@, n),
                             !.chunk = [node |-> n, update |-> u],
                             !.pending = nxt,
                             !.status = IF nxt = {} THEN "terminated"
                                        ELSE IF Cardinality(nxt) > 1
                                               THEN "failed" ELSE "running",
                             !.error = IF Cardinality(nxt) > 1
                                         THEN "InvalidUpdateError" ELSE "none",
                             !.answer = IF nxt = {}
                                          THEN Get(st, "final_response", DefaultAnswer)
                                          ELSE "none"]
  /\ UNCHANGED wcalls
  /\ UNCHANGED <<evars, svars>>

WineNodeCompletes ==
  /\ wrun.status = "running"
  /\ \E n \in wrun.pending : \E u \in WineNodeUpdates(n, wstate) : WineStep(n, u)

WineNodeRaises ==
  /\ wrun.status = "running"
  /\ wrun.pending = {"vector_search"}
  /\ wrun' = [wrun EXCEPT !.status = "failed", !.error = "NodeExecutionError"]
  /\ UNCHANGED <<wstate, wcalls>>
  /\ UNCHANGED <<evars, svars>>

WineCall == \E q \in Questions : Query(q)

WineNext == WineCall \/ WineNodeCompletes \/ WineNodeRaises

(* ---------------- specification of the event-scheduler side ------------ *)
(***************************************************************************)
(* get_vector_store (wine_agents.py): a module-level instance guarded by   *)
(* double-checked locking.  Each thread walks the function one read or     *)
(* write of the shared variables at a time.                                *)
(***************************************************************************)
NumThreads == 2
MaxStoreCalls == 3
Threads == 1..NumThreads
NoInstance == 0
Unlocked == 0

StoreFrame == UNCHANGED <<evars, wvars, sessmgr, chat>>

SecondCheckSkipped(instance) == TRUE

(* `if _vector_store_instance is None` under the lock *)
SecondCheck(instance) == instance = NoInstance

StoreEnter(t) ==
  /\ vstore.pc[t] = "idle"
  /\ vstore.calls < MaxStoreCalls
  /\ vstore' = [vstore EXCEPT !.pc[t] = "check1", !.calls = @ + 1]
  /\ StoreFrame

FirstCheck(t) ==
  /\ vstore.pc[t] = "check1"
  /\ vstore' = [vstore EXCEPT !.pc[t] =
                  IF vstore.instance = NoInstance THEN "acquire" ELSE "return"]
  /\ StoreFrame

AcquireLock(t) ==
  /\ vstore.pc[t] = "acquire"
  /\ vstore.lock = Unlocked
  /\ vstore' = [vstore EXCEPT !.lock = t, !.pc[t] = "check2"]
  /\ StoreFrame

LockedCheck(t) ==
  /\ vstore.pc[t] = "check2"
  /\ vstore' = [vstore EXCEPT !.pc[t] =
                  IF SecondCheck(vstore.instance) THEN "construct"
                  ELSE "release"]
  /\ StoreFrame

(* VectorStore(config) completes and is bound to the module variable *)
Construct(t) ==
  /\ vstore.pc[t] = "construct"
  /\ vstore' = [vstore EXCEPT !.built = @ + 1,
                              !.instance = vstore.built + 1,
                              !.pc[t] = "release"]
  /\ StoreFrame

(* setup_pinecone re-raises: the with block releases the lock, nothing is  *)
(* bound, the exception leaves get_vector_store                            *)
ConstructRaises(t) ==
  /\ vstore.pc[t] = "construct"
  /\ vstore' = [vstore EXCEPT !.lock = Unlocked, !.pc[t] = "idle"]
  /\ StoreFrame

ReleaseLock(t) ==
  /\ vstore.pc[t] = "release"
  /\ vstore' = [vstore EXCEPT !.lock = Unlocked, !.pc[t] = "return"]
  /\ StoreFrame

ReturnInstance(t) ==
  /\ vstore.pc[t] = "return"
  /\ vstore' = [vstore EXCEPT !.returned = @ \cup {vstore.instance},
                              !.pc[t] = "idle"]
  /\ StoreFrame

get_vector_store(t) ==
  \/ StoreEnter(t)
  \/ FirstCheck(t)
  \/ AcquireLock(t)
  \/ LockedCheck(t)
  \/ Construct(t)
  \/ ConstructRaises(t)
  \/ ReleaseLock(t)
  \/ ReturnInstance(t)

StoreNext == \E t \in Threads : get_vector_store(t)

(***************************************************************************)
(* SessionManager (core/session_manager.py): get_session_manager and       *)
(* get_or_create_session, called from several threads.  Neither takes a    *)
(* lock, so each check and each later write is a step of its own.          *)
(***************************************************************************)
MaxSessionCalls == 3
SessionIds == {"s1", "s2"}
NoManager == 0
NoExecutor == 0
NoLocals == [sid |-> "none", mgr |-> NoManager, executor |-> NoExecutor]

SessionFrame == UNCHANGED <<evars, wvars, vstore, chat>>

SessionEnter(t, sid) ==
  /\ sessmgr.pc[t] = "idle"
  /\ sessmgr.calls < MaxSessionCalls
  /\ sessmgr' = [sessmgr EXCEPT !.pc[t] = "mgr_check", !.calls = @ + 1,
                                !.local[t] = [NoLocals EXCEPT !.sid = sid]]
  /\ SessionFrame

(* `if _session_manager is None` *)
ManagerCheck(t) ==
  /\ sessmgr.pc[t] = "mgr_check"
  /\ sessmgr' = [sessmgr EXCEPT !.pc[t] =
                   IF sessmgr.manager = NoManager THEN "mgr_create"
                   ELSE "mgr_return"]
  /\ SessionFrame

(* `_session_manager = SessionManager()`: a new, empty sessions dict *)
ManagerCreate(t) ==
  /\ sessmgr.pc[t] = "mgr_create"
  /\ sessmgr' = [sessmgr EXCEPT !.nmgr = @ + 1,
                                !.manager = sessmgr.nmgr + 1,
                                !.pc[t] = "mgr_return"]
  /\ SessionFrame

ManagerReturn(t) ==
  /\ sessmgr.pc[t] = "mgr_return"
  /\ sessmgr' = [sessmgr EXCEPT !.local[t].mgr = sessmgr.manager,
                                !.pc[t] = "sess_check"]
  /\ SessionFrame

(* `if session_id in self.sessions: return self.sessions[session_id]` *)
SessionCheck(t) ==
  /\ sessmgr.pc[t] = "sess_check"
  /\ LET l == sessmgr.local[t]
         e == sessmgr.sessions[l.mgr][l.sid]
     IN IF e # NoExecutor
        THEN sessmgr' = [sessmgr EXCEPT !.returned = @ \cup {<<l.sid, e>>},
                                        !.pc[t] = "idle"]
        ELSE sessmgr' = [sessmgr EXCEPT !.pc[t] = "sess_create"]
  /\ SessionFrame

(* memory, agent and AgentExecutor are built *)
ExecutorCreate(t) ==
  /\ sessmgr.pc[t] = "sess_create"
  /\ sessmgr' = [sessmgr EXCEPT
                   !.nexec = @ + 1,
                   !.created[sessmgr.local[t].sid] = @ + 1,
                   !.local[t].executor = sessmgr.nexec + 1,
                   !.pc[t] = "sess_store"]
  /\ SessionFrame

(* `self.sessions[session_id] = executor; return executor` *)
SessionStore(t) ==
  /\ sessmgr.pc[t] = "sess_store"
  /\ LET l == sessmgr.local[t]
     IN sessmgr' = [sessmgr EXCEPT
                      !.sessions[l.mgr][l.sid] = l.executor,
                      !.returned = @ \cup {<<l.sid, l.executor>>},
                      !.pc[t] = "idle"]
  /\ SessionFrame

get_session_manager(t) ==
  ManagerCheck(t) \/ ManagerCreate(t) \/ ManagerReturn(t)

get_or_create_session(t) ==
  SessionCheck(t) \/ ExecutorCreate(t) \/ SessionStore(t)

SessionNext ==
  \E t \in Threads :
    \/ \E sid \in SessionIds : SessionEnter(t, sid)
    \/ get_session_manager(t)
    \/ get_or_create_session(t)

(***************************************************************************)
(* InMemoryChatHistory (utils/chat_history.py): the class-level            *)
(* _history_store.  chat.log is the per-conversation log the store is      *)
(* compared with: the messages added since the conversation's last clear.  *)
(***************************************************************************)
MaxHistory == 4
ChatIds == {"conv1", "conv2"}
Roles == {"human", "ai"}
Contents == {"text"}
NoHistory == [present |-> FALSE, msgs |-> << >>]

ChatFrame == UNCHANGED <<evars, wvars, vstore, sessmgr>>

get_history_unstored(store, c) == store

(* the store after get_history(c): an absent conversation gets a new list *)
get_history(store, c) ==
  IF ~store[c].present
  THEN [store EXCEPT ![c] = [present |-> TRUE, msgs |-> << >>]]
  ELSE store

add_message(store, c, role, content) ==
  LET created == get_history(store, c)
  IN [created EXCEPT ![c].msgs =
        Append(@, [type |-> role, content |-> content])]

clear_history(store, c) ==
  IF store[c].present THEN [store EXCEPT ![c].msgs = << >>] ELSE store

GetHistory(c) ==
  /\ LET after == get_history(chat.store, c)
     IN chat' = [chat EXCEPT
                   !.store = after,
                   !.last = [op |-> "get_history", conv |-> c,
                             result |-> after[c].msgs]]
  /\ ChatFrame

AddMessage(c, role, content) ==
  /\ Len(chat.log[c]) < MaxHistory
  /\ LET after == add_message(chat.store, c, role, content)
     IN chat' = [chat EXCEPT
                   !.store = after,
                   !.log[c] = Append(@, [type |-> role, content |-> content]),
                   !.last = [op |-> "add_message", conv |-> c,
                             result |-> after[c].msgs]]
  /\ ChatFrame

ClearHistory(c) ==
  /\ chat' = [chat EXCEPT
                !.store = clear_history(chat.store, c),
                !.log[c] = << >>,
                !.cleared = IF chat.log[c] # << >> THEN @ \cup {c} ELSE @,
                !.last = [op |-> "clear_history", conv |-> c,
                          result |-> << >>]]
  /\ ChatFrame

ChatNext ==
  \E c \in ChatIds :
    \/ GetHistory(c)
    \/ \E role \in Roles : \E content \in Contents :
         AddMessage(c, role, content)
    \/ ClearHistory(c)

(***************************************************************************)
(* The agents that write the chat history: DocumentRAGAgent.query,         *)
(* MedicalBotAgent.consult, VideoTranscriptionAgent.query_video.  Each is  *)
(* the store after one completed call; outcome says how the call went:     *)
(* "answered", "raised" (retrieval or the model call raised, the except    *)
(* branch answers) or, for query_video, "no_results".                      *)
(***************************************************************************)
Outcomes == {"answered", "raised"}
VideoOutcomes == {"answered", "no_results", "raised"}

DocumentRAGAgent_query(store, c, outcome) ==
  LET asked == add_message(store, c, "human", "text")
  IN IF outcome = "answered"
       THEN add_message(asked, c, "ai", "answer")
       ELSE add_message(asked, c, "ai", "error")

MedicalBotAgent_consult(store, c, outcome) ==
  LET asked == add_message(store, c, "human", "text")
  IN IF outcome = "answered"
       THEN add_message(asked, c, "ai", "answer")
       ELSE add_message(asked, c, "ai", "error")

query_video_no_return(store, c, outcome) ==
  LET asked == add_message(store, c, "human", "text")
      searched == IF outcome = "no_results"
                    THEN add_message(asked, c, "ai", "no_results")
                    ELSE asked
  IN IF outcome = "raised"
       THEN add_message(searched, c, "ai", "error")
       ELSE add_message(searched, c, "ai", "answer")

VideoTranscriptionAgent_query_video(store, c, outcome) ==
  LET asked == add_message(store, c, "human", "text")
  IN IF outcome = "no_results"
       THEN add_message(asked, c, "ai", "no_results")
     ELSE IF outcome = "answered"
       THEN add_message(asked, c, "ai", "answer")
       ELSE add_message(asked, c, "ai", "error")

Reply(outcome) == IF outcome = "answered" THEN "answer"
                  ELSE IF outcome = "raised" THEN "error" ELSE outcome

AgentCall(op, c, outcome, after) ==
  /\ Len(chat.log[c]) + 2 <= MaxHistory
  /\ chat' = [chat EXCEPT
                !.store = after,
                !.log[c] = @ \o <<[type |-> "human", content |-> "text"],
                                  [type |-> "ai", content |-> Reply(outcome)]>>,
                !.last = [op |-> op, conv |-> c, result |-> after[c].msgs]]
  /\ ChatFrame

DocumentQuery(c, outcome) ==
  AgentCall("query", c, outcome, DocumentRAGAgent_query(chat.store, c, outcome))

Consult(c, outcome) ==
  AgentCall("consult", c, outcome,
            MedicalBotAgent_consult(chat.store, c, outcome))

QueryVideo(c, outcome) ==
  AgentCall("query_video", c, outcome,
            VideoTranscriptionAgent_query_video(chat.store, c, outcome))

AgentOps == {"query", "consult", "query_video"}

AgentNext ==
  \E c \in ChatIds :
    \/ \E outcome \in Outcomes : DocumentQuery(c, outcome)
    \/ \E outcome \in Outcomes : Consult(c, outcome)
    \/ \E outcome \in VideoOutcomes : QueryVideo(c, outcome)
    \/ GetHistory(c)
    \/ ClearHistory(c)

IdleRun ==
  [status |-> "idle", conv |-> 0, input |-> << >>, node |-> EntryNode,
   steps |-> 0, path |-> << >>, chunk |-> NoChunk, error |-> "none",
   responses |-> << >>, result |-> "none", cancel |-> "none",
   rerun |-> FALSE, resumed |-> FALSE, base |-> EmptyState, prior |-> << >>]

Init ==
  /\ memory = << >>
  /\ run = IdleRun
  /\ calls = 0
  /\ wstate = << >>
  /\ wrun = [status |-> "idle", question |-> "none", pending |-> {},
             steps |-> 0, path |-> << >>, chunk |-> NoChunk,
             error |-> "none", answer |-> "none"]
  /\ wcalls = 0
  /\ vstore = [instance |-> NoInstance, lock |-> Unlocked, built |-> 0,
               calls |-> 0, pc |-> [t \in Threads |-> "idle"],
               returned |-> {}]
  /\ sessmgr = [manager |-> NoManager, nmgr |-> 0,
                sessions |-> [m \in Threads |->
                               [sid \in SessionIds |-> NoExecutor]],
                nexec |-> 0, created |-> [sid \in SessionIds |-> 0],
                returned |-> {}, calls |-> 0,
                pc |-> [t \in Threads |-> "idle"],
                local |-> [t \in Threads |-> NoLocals]]
  /\ chat = [store |-> [c \in ChatIds |-> NoHistory],
             log |-> [c \in ChatIds |-> << >>],
             cleared |-> {},
             last |-> [op |-> "none", conv |-> "none", result |-> << >>]]

Call == \E c \in Convs : \E msgs \in Inputs(c) : Interact(c, msgs)

Next == Call \/ NodeCompletes \/ NodeRaises \/ Disconnect

Spec == Init /\ [][Next]_vars

WineSpec == Init /\ [][WineNext]_vars

(* graph.invoke runs the pending node until none is left: a node that can  *)
(* complete does complete.                                                 *)
WineFairSpec == Init /\ [][WineNext]_vars /\ WF_vars(WineNodeCompletes)

StoreSpec == Init /\ [][StoreNext]_vars

SessionSpec == Init /\ [][SessionNext]_vars

ChatSpec == Init /\ [][ChatNext]_vars

AgentSpec == Init /\ [][AgentNext]_vars

(* ======================================================================= *)
(* Properties of the event-scheduler side                                  *)
(* ======================================================================= *)
Range(s) == {s[i] : i \in DOMAIN s}

IsPrefix(s, t) == Len(s) <= Len(t) /\ SubSeq(t, 1, Len(s)) = s

RECURSIVE Rep(_, _)
Rep(x, k) == IF k = 0 THEN << >> ELSE <<x>> \o Rep(x, k - 1)

RECURSIVE Outputs(_)
Outputs(p) ==
  IF p = << >> THEN << >>
  ELSE (IF Head(p) \in Routers THEN << >> ELSE agent_node(Head(p)).messages)
         \o Outputs(Tail(p))

ThreadState == memory[ThreadId(run.conv)].state

(* What one uninterrupted run from state base with the given input can end *)
(* in: supervisor -> member -> END, or supervisor -> greeting_chain ->     *)
(* (greet_agent -> greeting_chain)* -> END | prechat_agent -> END.         *)
Uninterrupted(base, input) ==
  {[messages |-> base.messages \o input \o <<NodeMsg(m)>>, next |-> m] :
      m \in members \ {"greeting_chain"}}
    \cup {[messages |-> base.messages \o input \o Rep(NodeMsg("greet_agent"), k),
           next |-> "FINISH"] : k \in 0..StepBudget}
    \cup {[messages |-> base.messages \o input \o Rep(NodeMsg("greet_agent"), k)
                          \o <<NodeMsg("prechat_agent")>>,
           next |-> "prechat_agent"] : k \in 0..StepBudget}

(* A run that was never interrupted ends in one of those states.           *)
StraightRunShape ==
  (run.status = "terminated" /\ ~run.resumed)
    => ThreadState \in Uninterrupted(run.base, run.input)

(* C1: resume equivalence. A run that was interrupted at a step boundary   *)
(* (the next node raised) and is continued by a second call with the same  *)
(* thread id and input ends in a state an uninterrupted run could end in.  *)
ResumeEquivalence ==
  (run.status = "terminated" /\ run.resumed /\ run.prior # << >>)
    => ThreadState \in Uninterrupted(run.base, run.input)

(* C2: the continued run does not execute a node that had completed before *)
(* the interruption (the entry node supervisor, once it has completed, is  *)
(* not executed again), and the accumulated log of the final state is the  *)
(* input followed by the output of every node, each once, in the order of  *)
(* execution.                                                              *)
ResumeSkipsCompleted ==
  run.resumed =>
    /\ (run.prior # << >> => "supervisor" \notin Range(run.path))
    /\ (run.status = "terminated" =>
          ThreadState.messages =
            run.base.messages \o run.input \o Outputs(run.prior \o run.path))

(* C3: a call with no new input on a thread whose last run TERMINATED      *)
(* executes no node and leaves the stored final state as it was.           *)
IdempotentRerun ==
  run.rerun => (run.path = << >> /\ ThreadState = run.base)

(* C4: cycle guard. A run executes at most StepBudget nodes; it is RUNNING *)
(* only below the budget, and a run that has used the budget without       *)
(* reaching END is FAILED with CycleBudgetExceeded.                        *)
CycleGuard ==
  /\ run.steps <= StepBudget
  /\ Len(run.path) = run.steps
  /\ (run.status = "running" => run.steps < StepBudget)
  /\ ((run.steps = StepBudget /\ run.node # END)
        => (run.status = "failed" /\ run.error = "CycleBudgetExceeded"))
  /\ (run.error = "CycleBudgetExceeded" => run.steps = StepBudget)

CycleGuardWitness ==
  /\ run.status = "failed"
  /\ run.error = "CycleBudgetExceeded"
  /\ run.node \in {"greet_agent", "greeting_chain"}
  /\ "greet_agent" \in Range(run.path)
  /\ "greeting_chain" \in Range(run.path)

(* C5: router validity. After a conditional edge has been evaluated, the   *)
(* router's value is a key of that edge's path map and the run continues   *)
(* at the mapped target (or ends, for the END target); a value outside the *)
(* map fails the run at that evaluation with a configuration error, the    *)
(* node's update is not applied, and the run neither ends as TERMINATED    *)
(* nor goes on.                                                            *)
RouterValidity ==
  run.chunk.node \in Routers =>
    LET v == run.chunk.update.next
        pm == PathMap(run.chunk.node)
    IN IF v \in DOMAIN pm
         THEN /\ run.error # "ConfigurationError"
              /\ run.node = pm[v]
              /\ ThreadState.next = v
         ELSE /\ run.status = "failed"
              /\ run.error = "ConfigurationError"
              /\ run.node = run.chunk.node
              /\ memory[ThreadId(run.conv)].pending = run.chunk.node

RouterValidityWitness ==
  /\ run.chunk.node = "supervisor"
  /\ run.chunk.update.next = "FINISH"
  /\ run.status = "failed"
  /\ run.error = "ConfigurationError"

(* C6: thread isolation. The state a conversation's run works on holds     *)
(* only that conversation's own input messages.                            *)
ThreadIsolation ==
  run.status # "idle" =>
    \A i \in DOMAIN ThreadState.messages :
      ThreadState.messages[i].name = "human"
        => ThreadState.messages[i].conv = run.conv

(* C7: accumulating merge. Every step and every call leaves the message    *)
(* log equal to the previous log followed by the update's messages, so the *)
(* earlier log is a prefix of the later one and nothing is removed.        *)
AccumulatingMerge ==
  [][ /\ \A t \in DOMAIN memory :
           /\ t \in DOMAIN memory'
           /\ IsPrefix(memory[t].state.messages, memory'[t].state.messages)
      /\ (run'.steps = run.steps + 1 /\ "messages" \in DOMAIN run'.chunk.update)
           => memory'[ThreadId(run.conv)].state.messages =
                memory[ThreadId(run.conv)].state.messages
                  \o run'.chunk.update.messages
      /\ (calls' = calls + 1 /\ ThreadId(run'.conv) \in DOMAIN memory)
           => memory'[ThreadId(run'.conv)].state.messages =
                memory[ThreadId(run'.conv)].state.messages \o run'.input
    ]_vars

AccumulatingMergeWitness ==
  /\ run.status = "terminated"
  /\ \E i, j \in DOMAIN ThreadState.messages :
       i < j /\ ThreadState.messages[i] = ThreadState.messages[j]
  /\ Len(ThreadState.messages) >= 4

(* C10: an update with a key the state schema does not declare fails the   *)
(* run with a configuration error.                                         *)
UnknownKeyIsError ==
  (run.chunk.node # "none" /\ ~(DOMAIN run.chunk.update \subseteq SchemaKeys))
    => (run.status = "failed" /\ run.error = "ConfigurationError")

(* C11: node failure. When a node raises, the run is FAILED with an error  *)
(* that names the failing node and carries the state at the failure; the   *)
(* failing node is not executed again and no further node executes in the  *)
(* run (the checkpoint still has the failing node pending).                *)
NodeFailureSurfaced ==
  run.error = "NodeExecutionError" =>
    /\ run.status = "failed"
    /\ Len(run.path) = run.steps
    /\ memory[ThreadId(run.conv)].pending = run.node
    /\ run.result = "FAILED"

(* C12: cancellation. After a cancellation request at most the node that   *)
(* was running completes; the run is then suspended at that node's         *)
(* successor and no further node executes in the abandoned call.           *)
CancelSuspends == run.cancel # "ignored"

(* C14: structured outcome. A call that has ended did not end with a bare  *)
(* exception escaping to the caller.                                       *)
StructuredOutcome ==
  run.status \in {"terminated", "failed"} => run.result # "exception"

CheckpointLifecycle ==
  [][ /\ DOMAIN memory \subseteq DOMAIN memory'
      /\ DOMAIN memory' # DOMAIN memory => calls' = calls + 1
      /\ calls' = calls + 1 =>
           LET tid == ThreadId(run'.conv)
           IN /\ tid \in DOMAIN memory'
              /\ memory'[tid].pending = EntryNode
              /\ IF tid \in DOMAIN memory
                   THEN /\ memory'[tid].state.messages =
                             memory[tid].state.messages \o run'.input
                        /\ memory'[tid].state.next = memory[tid].state.next
                   ELSE /\ memory'[tid].state.messages = run'.input
                        /\ memory'[tid].state.next = NoValue
    ]_vars

CheckpointLifecycleWitness ==
  /\ calls = 2
  /\ run.status = "running"
  /\ run.path = << >>
  /\ \E i \in DOMAIN ThreadState.messages : ThreadState.messages[i].name # "human"
  /\ ThreadState.next # NoValue

OutDegree(n) ==
  Cardinality({e \in StaticEdges : e[1] = n})
    + (IF n \in Routers THEN 1 ELSE 0)

WineOutDegree(n) ==
  Cardinality({e \in WineStaticEdges : e[1] = n})
    + (IF n \in WineRouters THEN 1 ELSE 0)

(* C23: single outgoing edge. Every node a run executes has exactly one    *)
(* outgoing edge: one static edge or one conditional edge, never both and  *)
(* never two static edges.                                                 *)
SingleOutgoingEdge ==
  /\ wrun.chunk.node # "none" => WineOutDegree(wrun.chunk.node) = 1
  /\ run.chunk.node # "none" => OutDegree(run.chunk.node) = 1

Leaves == members \ {"greeting_chain"}

(* C29: every run executes supervisor first and only first; once one of    *)
(* prechat_agent, comparison, colortrend, scheduler_agent, fallback_agent, *)
(* feedback_agent has executed, it is the last node of the run and the run *)
(* has ended; after supervisor, only greeting_chain and greet_agent are    *)
(* followed by another node.                                               *)
SupervisorFirst ==
  /\ (run.status = "running" /\ run.path = << >>) => run.node = "supervisor"
  /\ \A i \in DOMAIN run.path :
       /\ (run.path[i] = "supervisor") <=> (i = 1)
       /\ run.path[i] \in Leaves =>
            /\ i = Len(run.path)
            /\ run.status = "terminated"
            /\ run.node = END
       /\ (1 < i /\ i < Len(run.path)) =>
            run.path[i] \in {"greeting_chain", "greet_agent"}

SupervisorFirstWitness ==
  /\ run.status = "terminated"
  /\ run.path = <<"supervisor", "greeting_chain", "greet_agent",
                  "greeting_chain">>

(* ======================================================================= *)
(* Properties of the wine side                                             *)
(* ======================================================================= *)
(* C8: overwriting merge is last-write-wins. After a node's update is      *)
(* merged, every key of the update holds the update's value, the explicit  *)
(* no-value included: after answer_synthesis, __next__ is None or fallback *)
(* as answer_synthesis wrote it, not what vector_search wrote before.      *)
OverwriteLastWins ==
  wrun.chunk.node # "none" =>
    /\ DOMAIN wrun.chunk.update \subseteq DOMAIN wstate
    /\ \A k \in DOMAIN wrun.chunk.update : wstate[k] = wrun.chunk.update[k]

OverwriteLastWinsWitness ==
  /\ wrun.chunk.node = "answer_synthesis"
  /\ wrun.path = <<"analyze_query", "vector_search", "answer_synthesis">>
  /\ wrun.chunk.update["__next__"] = None
  /\ wstate["__next__"] = None
  /\ wrun.status = "terminated"

(* C9: merge frame condition. The keys the claim names are still in the    *)
(* state after later updates that do not hold them: query, written by the  *)
(* caller, stays with its value, and once vector_search has executed its   *)
(* retrieved_chunks and vector_matches stay.                               *)
MergeFrame ==
  wrun.status # "idle" =>
    /\ "query" \in DOMAIN wstate
    /\ wstate["query"] = wrun.question
    /\ "vector_search" \in Range(wrun.path)
         => {"retrieved_chunks", "vector_matches"} \subseteq DOMAIN wstate

SufficientPath == <<"analyze_query", "vector_search", "answer_synthesis">>

InsufficientPath ==
  <<"analyze_query", "vector_search", "vision_analysis", "ocr_analysis",
    "answer_synthesis", "fallback">>

TextSufficient ==
  wrun.chunk.node = "vector_search" /\ wrun.chunk.update.text_sufficient

TextInsufficient ==
  wrun.chunk.node = "vector_search" /\ ~wrun.chunk.update.text_sufficient

(* C15: sufficient branch. When vector_search (the analysing node) reports *)
(* text_sufficient, the next node is answer_synthesis (the responding      *)
(* node); a run in which answer_synthesis follows vector_search has        *)
(* visited exactly analyze_query, vector_search, answer_synthesis, never   *)
(* the enriching nodes, and is TERMINATED with answer_synthesis' output in *)
(* the final state and in the answer returned.                             *)
SufficientBranch ==
  /\ TextSufficient =>
       (wrun.status = "running" /\ wrun.pending = {"answer_synthesis"})
  /\ (Len(wrun.path) >= 3 /\ wrun.path[3] = "answer_synthesis") =>
       /\ wrun.path = SufficientPath
       /\ wrun.status = "terminated"
       /\ wrun.chunk.node = "answer_synthesis"
       /\ wstate["final_response"] = wrun.chunk.update["final_response"]
       /\ wrun.answer = wstate["final_response"]

SufficientBranchWitness ==
  /\ wrun.status = "terminated"
  /\ wrun.path = SufficientPath
  /\ wstate["final_response"] = "answer"

SingletonStore ==
  /\ vstore.built <= 1
  /\ \A i \in vstore.returned : i # NoInstance /\ i = vstore.instance
  /\ Cardinality(vstore.returned) <= 1

(* one caller has returned the instance while another, which saw None at   *)
(* the first check, holds the lock and is about to check again             *)
SingletonStoreWitness ==
  /\ vstore.returned # {}
  /\ \E t \in Threads : vstore.pc[t] = "check2" /\ vstore.lock = t
  /\ vstore.instance # NoInstance

(* C19: session continuity. Under every interleaving of                    *)
(* get_session_manager().get_or_create_session(sid, ...) calls an          *)
(* AgentExecutor is created at most once per session id, every call with   *)
(* the same id returns the same executor, and one manager serves them.     *)
SessionContinuity ==
  \A sid \in SessionIds :
    /\ sessmgr.created[sid] <= 1
    /\ Cardinality({p \in sessmgr.returned : p[1] = sid}) <= 1

(* C20: InMemoryChatHistory matches a per-conversation log. After any      *)
(* sequence of get_history, add_message and clear_history calls, what      *)
(* get_history(c) returns is the list of messages added to c since its     *)
(* last clear_history(c), in the order added; calls with another           *)
(* conversation id never change it.                                        *)
HistoryMatchesLog ==
  /\ \A c \in ChatIds : get_history(chat.store, c)[c].msgs = chat.log[c]
  /\ chat.last.op \in {"get_history", "add_message"} =>
       chat.last.result = chat.log[chat.last.conv]

HistoryMatchesLogWitness ==
  /\ chat.last.op = "get_history"
  /\ chat.last.conv \in chat.cleared
  /\ Len(chat.last.result) = 2
  /\ chat.last.result[1].type = "human"
  /\ chat.last.result[2].type = "ai"
  /\ \E d \in ChatIds \ {chat.last.conv} : chat.log[d] # << >>

(* C24: sequential run. A run has at most one node to execute at any time  *)
(* and never two nodes in the same step, also after vision_analysis and    *)
(* greet_agent, the nodes with more than one edge leaving them: no step    *)
(* triggers two nodes, so no step fails on two writes to the state.        *)
SequentialRun ==
  /\ Cardinality(wrun.pending) <= 1
  /\ wrun.status = "running" => Cardinality(wrun.pending) = 1
  /\ wrun.error # "InvalidUpdateError"
  /\ \A n \in Nodes :
       Cardinality(StaticTargets(n)) + (IF n \in Routers THEN 1 ELSE 0) <= 1

SequentialRunWitness ==
  /\ wrun.status = "running"
  /\ wrun.chunk.node = "vision_analysis"
  /\ WineOutDegree("vision_analysis") = 2
  /\ wrun.pending = {"ocr_analysis"}

(* C25: wine graph termination. A run never executes more nodes than the   *)
(* graph has (six), fails only when a node raises, and every running run   *)
(* comes to an end: it reaches END unless a node raised.                   *)
WineTerminates ==
  /\ [](/\ wrun.steps <= Cardinality(WineNodes)
        /\ wrun.status = "failed" => wrun.error = "NodeExecutionError")
  /\ (wrun.status = "running") ~> (wrun.status \in {"terminated", "failed"})

WineTerminatesWitness ==
  /\ wrun.status = "terminated"
  /\ wrun.steps = Cardinality(WineNodes)
  /\ Range(wrun.path) = WineNodes

(* C26: no node of the wine graph is executed twice in a run, and a run    *)
(* that reached END has executed answer_synthesis exactly once, also when  *)
(* it passed through vision_analysis.                                      *)
NoNodeTwice ==
  /\ \A i, j \in DOMAIN wrun.path : i # j => wrun.path[i] # wrun.path[j]
  /\ wrun.status = "terminated" =>
       Cardinality({i \in DOMAIN wrun.path :
                      wrun.path[i] = "answer_synthesis"}) = 1

NoNodeTwiceWitness ==
  /\ wrun.status = "terminated"
  /\ wrun.chunk.node = "fallback"
  /\ \E i \in DOMAIN wrun.path : wrun.path[i] = "vision_analysis"
  /\ \E i \in DOMAIN wrun.path : wrun.path[i] = "answer_synthesis"

(* C27: fallback runs exactly when vector_search retrieved no chunk.       *)
(* vector_search routes to vision_analysis exactly when retrieved_chunks   *)
(* is empty; then vision_analysis and ocr_analysis find no chunk,          *)
(* vision_analysis goes on to ocr_analysis, answer_synthesis sets          *)
(* no_answer and goes on to fallback, and the run ends with the fallback   *)
(* message. When a chunk was retrieved, answer_synthesis is the last node  *)
(* and fallback is not executed.                                           *)
FallbackExactly ==
  LET n == wrun.chunk.node
      u == wrun.chunk.update
      viaVision == "vision_analysis" \in Range(wrun.path)
  IN /\ n = "vector_search" =>
          ((u["retrieved_chunks"] = << >>) <=> (wrun.pending = {"vision_analysis"}))
     /\ n = "vision_analysis" =>
          (u["vision_chunks"] = << >> /\ wrun.pending = {"ocr_analysis"})
     /\ n = "ocr_analysis" => u["ocr_chunks"] = << >>
     /\ n = "answer_synthesis" =>
          /\ u["no_answer"] <=> viaVision
          /\ u["no_answer"] => wrun.pending = {"fallback"}
          /\ ~u["no_answer"] => wrun.status = "terminated"
     /\ "fallback" \in Range(wrun.path) =>
          /\ viaVision
          /\ wstate["final_response"] = FallbackMessage
          /\ wrun.answer = FallbackMessage
     /\ wrun.status = "terminated" =>
          (("fallback" \in Range(wrun.path)) <=> viaVision)

FallbackExactlyWitness ==
  /\ wrun.chunk.node = "fallback"
  /\ wrun.answer = FallbackMessage
  /\ wrun.path[3] = "vision_analysis"

(* C28: a run of the wine graph that reached END has final_response in its *)
(* final state, also when the completion call failed, and query returns    *)
(* it, never the default answer.                                           *)
FinalResponseSet ==
  wrun.status = "terminated" =>
    /\ "final_response" \in DOMAIN wstate
    /\ wrun.answer = wstate["final_response"]
    /\ wrun.answer # DefaultAnswer

FinalResponseSetWitness ==
  /\ wrun.status = "terminated"
  /\ wrun.chunk.node = "answer_synthesis"
  /\ wstate["final_response"] = ApologyMessage
  /\ wrun.answer = ApologyMessage

History(c) == get_history(chat.store, c)[c].msgs

Alternates(h) ==
  /\ Len(h) % 2 = 0
  /\ \A i \in DOMAIN h : h[i].type = (IF i % 2 = 1 THEN "human" ELSE "ai")

(* C30: each completed call of query, consult or query_video appends to    *)
(* its conversation's history exactly one human message followed by        *)
(* exactly one ai message, whether it answered or took an error path, and  *)
(* leaves the other conversations alone; so with calls that do not overlap *)
(* every history has even length and alternates human, ai.                 *)
HumanThenAi ==
  /\ [][ (chat'.last.op \in AgentOps /\ chat' # chat) =>
           \A c \in ChatIds :
             LET h == get_history(chat.store, c)[c].msgs
                 g == get_history(chat'.store, c)[c].msgs
             IN IF c = chat'.last.conv
                  THEN /\ Len(g) = Len(h) + 2
                       /\ SubSeq(g, 1, Len(h)) = h
                       /\ g[Len(h) + 1].type = "human"
                       /\ g[Len(h) + 2].type = "ai"
                  ELSE g = h
       ]_vars
  /\ [](\A c \in ChatIds : Alternates(History(c)))

HumanThenAiWitness ==
  /\ chat.last.op = "query_video"
  /\ Len(chat.last.result) = 4
  /\ chat.last.result[2].content = "error"
  /\ chat.last.result[4].content = "no_results"
  /\ Alternates(chat.last.result)

====
